---- MODULE Spec2Model ----
(***************************************************************************)
(* Model of src/main.py: NetworkPoetryGenerator.  A producer (the capture  *)
(* loop of process_packets) appends extracted records to packet_buffer; a  *)
(* cooperative consumer task (buffer_processor) polls the buffer, sends a  *)
(* prompt to the generation service, archives the result and clears the    *)
(* buffer; save_archive writes the archive to one JSON file on the way out.*)
(*                                                                         *)
(* Both coroutines run on one asyncio event loop, so the code between two  *)
(* awaits is one atomic step.  The awaits are main.py:197 (producer),      *)
(* main.py:168 and main.py:186 (consumer).  The packet source is a         *)
(* synchronous generator: while the producer waits for a packet the event  *)
(* loop does not run, so consumer steps happen only while the producer is  *)
(* at its await.                                                           *)
(***************************************************************************)
EXTENDS Integers, Sequences, FiniteSets, TLC

(* ------------------------------ bounds -------------------------------- *)

\* Number of packets the capture stream yields before it ends.
MaxPackets == 10

\* Number of packets of the stream whose extraction fails.
MaxFailures == 1

\* Distinct readings of the wall clock (datetime.now()) at archive time.
MaxTime == 2

\* Longest batch handed to the prompt builder on its own.
MaxBatch == 3

\* Number of times the prompt builder is called on the same input.
MaxCalls == 2

(* --------------------------- program values --------------------------- *)

\* Python's None.
None == [none |-> TRUE]

\* A Python int held in an Optional field.
PyInt(n) == [int |-> n]

\* A Python str held in an Optional field.
PyStr(s) == [str |-> s]

\* An exception raised inside a try block.
Raised == [raised |-> TRUE]

\* The sentinel of main.py:65-67.
Unknown == "Unknown"

\* An attribute or sub-field the packet object does not have.
Missing == "<missing>"

\* main.py:21-24
PoetryStyle == {"pessoa", "whitman", "dickinson"}

\* main.py:166
Threshold == 5

\* main.py:156
FallbackText == <<"Error generating poetic response">>

(* ---------------------------- the extractor --------------------------- *)

\* The field texts int() accepts, with the number each denotes.
NumericText == ("60" :> 60) @@ ("443" :> 443) @@ ("5000" :> 5000)

\* int(x) of main.py:68,76,77: a numeric text gives its number, anything
\* else (a missing attribute, a non-numeric text) raises.
ParseInt(x) == IF x \in DOMAIN NumericText THEN PyInt(NumericText[x]) ELSE Raised

\* packet[protocol] of main.py:76-79: the layer named by the protocol label,
\* an exception when the packet has no such layer.
LayerOf(packet, protocol) ==
    IF protocol \in DOMAIN packet.layers THEN packet.layers[protocol] ELSE Raised

\* getattr(packet[protocol], 'flags', None) of main.py:79
FlagsOf(layer) == IF layer.flags = Missing THEN None ELSE PyStr(layer.flags)

\* Variant of extract_packet_data: the destination port is never read.
extract_packet_data_without_port_dst(packet, now) ==
    LET src_ip   == IF packet.has_ip THEN packet.ip_src ELSE Unknown
        dest_ip  == IF packet.has_ip THEN packet.ip_dst ELSE Unknown
        protocol == IF packet.has_transport THEN packet.transport_layer ELSE Unknown
        length   == ParseInt(packet.length)
        layer    == LayerOf(packet, protocol)
        port_src == IF protocol # Unknown THEN ParseInt(layer.srcport) ELSE None
        flags    == IF protocol # Unknown THEN FlagsOf(layer) ELSE None
    IN  IF length = Raised THEN None
        ELSE IF protocol # Unknown /\ layer = Raised THEN None
        ELSE IF port_src = Raised THEN None
        ELSE [src_ip |-> src_ip, dest_ip |-> dest_ip, protocol |-> protocol,
              length |-> length.int, timestamp |-> now,
              port_src |-> port_src, port_dst |-> None, flags |-> flags]

\* Variant of extract_packet_data: a port that cannot be read is left None
\* and the record is returned all the same.
extract_packet_data_with_optional_ports(packet, now) ==
    LET src_ip   == IF packet.has_ip THEN packet.ip_src ELSE Unknown
        dest_ip  == IF packet.has_ip THEN packet.ip_dst ELSE Unknown
        protocol == IF packet.has_transport THEN packet.transport_layer ELSE Unknown
        length   == ParseInt(packet.length)
        layer    == LayerOf(packet, protocol)
        resolved == protocol # Unknown /\ layer # Raised
        port_src == IF resolved /\ ParseInt(layer.srcport) # Raised
                    THEN ParseInt(layer.srcport) ELSE None
        port_dst == IF resolved /\ ParseInt(layer.dstport) # Raised
                    THEN ParseInt(layer.dstport) ELSE None
        flags    == IF resolved THEN FlagsOf(layer) ELSE None
    IN  IF length = Raised THEN None
        ELSE [src_ip |-> src_ip, dest_ip |-> dest_ip, protocol |-> protocol,
              length |-> length.int, timestamp |-> now,
              port_src |-> port_src, port_dst |-> port_dst, flags |-> flags]

\* extract_packet_data, main.py:58-93.  now is the reading of time.time().
\* Any exception inside the try block gives None.
extract_packet_data(packet, now) ==
    LET src_ip   == IF packet.has_ip THEN packet.ip_src ELSE Unknown
        dest_ip  == IF packet.has_ip THEN packet.ip_dst ELSE Unknown
        protocol == IF packet.has_transport THEN packet.transport_layer ELSE Unknown
        length   == ParseInt(packet.length)
        layer    == LayerOf(packet, protocol)
        port_src == IF protocol # Unknown THEN ParseInt(layer.srcport) ELSE None
        port_dst == IF protocol # Unknown THEN ParseInt(layer.dstport) ELSE None
        flags    == IF protocol # Unknown THEN FlagsOf(layer) ELSE None
    IN  IF length = Raised THEN None
        ELSE IF protocol # Unknown /\ layer = Raised THEN None
        ELSE IF port_src = Raised \/ port_dst = Raised THEN None
        ELSE [src_ip |-> src_ip, dest_ip |-> dest_ip, protocol |-> protocol,
              length |-> length.int, timestamp |-> now,
              port_src |-> port_src, port_dst |-> port_dst, flags |-> flags]

\* time.time() at main.py:69 is reached only when int(packet.length) at
\* main.py:68 did not raise.
ReadsClock(packet) == ParseInt(packet.length) # Raised

\* A well-formed TCP packet of the capture stream.
GoodPacket ==
    [has_ip |-> TRUE, ip_src |-> "10.0.0.1", ip_dst |-> "10.0.0.2",
     has_transport |-> TRUE, transport_layer |-> "TCP", length |-> "60",
     layers |-> [p \in {"TCP"} |->
                    [srcport |-> "443", dstport |-> "5000", flags |-> "0x10"]]]

\* A malformed packet: its length is not numeric.
BadPacket == [GoodPacket EXCEPT !.length = "abc"]

\* The transport layers a packet object may carry, each with these field
\* texts: a port is numeric, not numeric or missing, the flags are there
\* or missing.
Layers ==
    [srcport : {"443", "abc", Missing},
     dstport : {"5000", "abc", Missing},
     flags   : {"0x10", Missing}]

\* The packet objects the capture may hand to the extractor (main.py:58):
\* with or without an ip layer, with or without a transport_layer label,
\* with a numeric, non-numeric or missing length, and with any of the
\* transport layers present.
Packets ==
    { [has_ip |-> ip,
       ip_src |-> IF ip THEN "10.0.0.1" ELSE Missing,
       ip_dst |-> IF ip THEN "10.0.0.2" ELSE Missing,
       has_transport |-> label # Missing,
       transport_layer |-> label,
       length |-> len,
       layers |-> [p \in names |-> layer]] :
         ip \in BOOLEAN, label \in {"TCP", "UDP", Missing},
         len \in {"60", "abc", Missing},
         names \in SUBSET {"TCP", "UDP"}, layer \in Layers }

\* The packets sniff_continuously() yields in the pipeline specification.
StreamPackets == {GoodPacket, BadPacket}

(* -------------------------- the prompt builder ------------------------ *)

\* base_context of main.py:100-116, one preamble per style.
base_context(style) ==
    CASE style = "pessoa"    -> "Channel the introspective, philosophical voice of Fernando Pessoa's heteronyms."
      [] style = "whitman"   -> "Embrace Walt Whitman's grand, expansive style."
      [] style = "dickinson" -> "Employ Emily Dickinson's delicate yet potent verse."

\* str() of an Optional[int] inside an f-string (main.py:122-123): the
\* digits of the number, or the text None.
Format(v) == IF v = None THEN "None" ELSE ToString(v.int)

\* The description line of one packet, main.py:121-125, as its pieces.
description(packet) ==
    <<"Data from ", packet.src_ip, ":", Format(packet.port_src),
      " to ", packet.dest_ip, ":", Format(packet.port_dst), ", ",
      ToString(packet.length), " bytes via ", packet.protocol, ".">>

\* Variant of craft_prompt: the packet lines come out last record first.
craft_prompt_reversed(packets, style) ==
    [preamble |-> base_context(style),
     lines    |-> [i \in 1..Len(packets) |-> description(packets[Len(packets) + 1 - i])],
     closing  |-> <<"Transform these digital flows into a poem in the style of ", style, ".">>]

\* craft_prompt, main.py:95-137: preamble, the packet lines in order, and
\* the closing instruction naming the style.
craft_prompt(packets, style) ==
    [preamble |-> base_context(style),
     lines    |-> [i \in 1..Len(packets) |-> description(packets[i])],
     closing  |-> <<"Transform these digital flows into a poem in the style of ", style, ".">>]

(* ------------------------ the generation client ----------------------- *)

\* Texts the generation service may return in response.choices[0].text.
ServiceTexts == {<<"poem">>, <<" ", "poem", " ">>}

\* The service call of main.py:145-152 returns a text or raises.
ServiceOutcomes == {[text |-> t] : t \in ServiceTexts} \cup {Raised}

RECURSIVE lstrip(_)
\* Removal of leading whitespace, half of str.strip() (main.py:153).
lstrip(text) ==
    IF text # <<>> /\ Head(text) = " " THEN lstrip(Tail(text)) ELSE text

RECURSIVE rstrip(_)
\* Removal of trailing whitespace, half of str.strip() (main.py:153).
rstrip(text) ==
    IF text # <<>> /\ text[Len(text)] = " "
    THEN rstrip(SubSeq(text, 1, Len(text) - 1)) ELSE text

\* str.strip() of main.py:153
strip(text) == rstrip(lstrip(text))

\* Variant of generate_poetry: a failed call gives an empty text instead of
\* the fallback string.
generate_poetry_without_fallback(outcome) ==
    IF outcome = Raised THEN <<>> ELSE strip(outcome.text)

\* The value generate_poetry returns for an outcome of the service call,
\* main.py:139-156.
generate_poetry(outcome) ==
    IF outcome = Raised THEN FallbackText ELSE strip(outcome.text)

(* ------------------------------ the archive --------------------------- *)

\* The readings datetime.now().isoformat() can give (main.py:42).  The wall
\* clock is not monotonic, so two entries may get the same reading.
Times == 1..MaxTime

\* PoetryArchiveEntry, main.py:37-42 and main.py:170-174.
PoetryArchiveEntry(poetry, packets, style, generated_at) ==
    [poetry |-> poetry, packets |-> packets, style |-> style,
     generated_at |-> generated_at]

\* [vars(p) for p in self.packet_buffer], main.py:172: the field map of
\* each record, in buffer order.
FieldMaps(records) == [i \in 1..Len(records) |-> records[i]]

\* The JSON value of an Optional field: None is written as null, an int
\* as a number, a str as a string.
JsonValue(v) ==
    IF v = None THEN "null"
    ELSE IF "int" \in DOMAIN v THEN ToString(v.int) ELSE v.str

\* The JSON object of one packet field map (json.dump, main.py:222).
JsonPacket(p) ==
    [src_ip |-> p.src_ip, dest_ip |-> p.dest_ip, protocol |-> p.protocol,
     length |-> ToString(p.length), timestamp |-> ToString(p.timestamp),
     port_src |-> JsonValue(p.port_src), port_dst |-> JsonValue(p.port_dst),
     flags |-> JsonValue(p.flags)]

\* archive_dict of main.py:211-219 as json.dump writes it (main.py:222).
ArchiveJson(archive) ==
    [k \in DOMAIN archive |->
        [poetry |-> archive[k].poetry,
         packets |-> [i \in 1..Len(archive[k].packets) |-> JsonPacket(archive[k].packets[i])],
         style |-> archive[k].style,
         generated_at |-> archive[k].generated_at]]

\* Content of network_poetry_archive.json before the process starts: no
\* file, or what an earlier run left.
NoFile == [file |-> "absent"]

OldContent == [file |-> "earlier run"]

\* What is left when json.dump fails after open(..., 'w') truncated the file.
Truncated == [file |-> "truncated"]

\* The file after a complete json.dump of the archive (main.py:221-222).
Written(archive) == [file |-> "json", content |-> ArchiveJson(archive)]

(* -------------------------------- state ------------------------------- *)

VARIABLES
    style,            \* the style argument of process_packets (main.py:158)
    packet_buffer,    \* self.packet_buffer (main.py:55)
    poetry_archive,   \* self.poetry_archive (main.py:56)
    producer_pc,      \* where the capture loop of process_packets is
    consumer_pc,      \* where the buffer_processor task is
    packets_read,     \* packets the capture stream has yielded so far
    failures,         \* packets whose extraction returned None
    clock,            \* number of time.time() readings taken (main.py:69)
    in_flight,        \* generation calls started and not yet returned
    drains,           \* history: one record per completed drain
    artifact,         \* content of network_poetry_archive.json
    save_calls,       \* history: outcomes of the save_archive calls
    exit_cause,       \* how process_packets ended
    fn_input,         \* the arguments of a function called on its own
    fn_output         \* what that call returned

\* The variables of the capture pipeline.
pipeline_vars ==
    <<style, packet_buffer, poetry_archive, producer_pc, consumer_pc,
      packets_read, failures, clock, in_flight, drains, artifact,
      save_calls, exit_cause>>

vars == <<pipeline_vars, fn_input, fn_output>>

\* No function is being called on its own.
Idle == [idle |-> TRUE]

\* The event loop runs a consumer step only while the producer is suspended
\* at await asyncio.sleep(0.1), main.py:197.
LoopRuns == producer_pc = "sleep"

\* __init__ (main.py:52-56) followed by the start of process_packets
\* (main.py:189): empty buffer and archive, the consumer task created.
Init ==
    /\ style \in PoetryStyle
    /\ packet_buffer = <<>>
    /\ poetry_archive = <<>>
    /\ producer_pc = "capture"
    /\ consumer_pc = "poll"
    /\ packets_read = 0
    /\ failures = 0
    /\ clock = 0
    /\ in_flight = <<>>
    /\ drains = <<>>
    /\ artifact \in {NoFile, OldContent}
    /\ save_calls = <<>>
    /\ exit_cause = "running"
    /\ fn_input = Idle
    /\ fn_output = Idle

(* ------------------------------ persistence --------------------------- *)

\* Outcomes of save_archive (main.py:205-226): the file is written; or
\* open() fails and the file stays as it was; or json.dump fails after
\* open(..., 'w') has truncated the file.
SaveOutcomes == {"written", "open_failed", "dump_failed"}

\* Variant of save_archive: the file is opened in append mode, so what it
\* held before stays in front of the new content.
save_archive_appending(archive, file, outcome) ==
    CASE outcome = "written"     ->
             IF file = NoFile THEN Written(archive)
             ELSE [file |-> "json", content |-> ArchiveJson(archive),
                   before |-> file]
      [] outcome = "open_failed" -> file
      [] outcome = "dump_failed" -> file

\* The file after save_archive, main.py:221-222.
save_archive(archive, file, outcome) ==
    CASE outcome = "written"     -> Written(archive)
      [] outcome = "open_failed" -> file
      [] outcome = "dump_failed" -> Truncated

\* Variant of Finish: what is left in the buffer is archived under the
\* fallback text before the archive is saved.
FinishFlushingBuffer(cause, outcome) ==
    LET flushed == IF packet_buffer = <<>> THEN poetry_archive
                   ELSE (MaxTime :> PoetryArchiveEntry(FallbackText,
                                        FieldMaps(packet_buffer), style, MaxTime))
                        @@ poetry_archive
    IN  /\ poetry_archive' = flushed
        /\ artifact' = save_archive(flushed, artifact, outcome)
        /\ save_calls' = Append(save_calls, outcome)
        /\ producer_pc' = "exited"
        /\ consumer_pc' = "cancelled"
        /\ exit_cause' = cause
        /\ UNCHANGED <<fn_input, fn_output, style, packet_buffer,
                       packets_read, failures, clock, in_flight, drains>>

\* Variant of Finish: save_archive has no try/except, so a failed write
\* leaves process_packets as an error of its own.
FinishRaisingSaveError(cause, outcome) ==
    /\ artifact' = save_archive(poetry_archive, artifact, outcome)
    /\ save_calls' = Append(save_calls, outcome)
    /\ producer_pc' = "exited"
    /\ consumer_pc' = "cancelled"
    /\ exit_cause' = IF outcome = "written" THEN cause ELSE "save_error"
    /\ UNCHANGED <<fn_input, fn_output, style, packet_buffer, poetry_archive,
                   packets_read, failures, clock, in_flight, drains>>

\* The finally block of process_packets (main.py:201-203), followed by the
\* return of main to asyncio.run (main.py:233-236), which cancels the tasks
\* still pending: the consumer never runs again, and a call it awaited
\* stays in flight in its thread with nobody to take its result.
Finish(cause, outcome) ==
    /\ artifact' = save_archive(poetry_archive, artifact, outcome)
    /\ save_calls' = Append(save_calls, outcome)
    /\ producer_pc' = "exited"
    /\ consumer_pc' = "cancelled"
    /\ exit_cause' = cause
    /\ UNCHANGED <<fn_input, fn_output, style, packet_buffer, poetry_archive, packets_read,
                   failures, clock, in_flight, drains>>

(* ------------------------------- producer ----------------------------- *)

\* Variant of Capture: the test `if packet_data:` is left out, so the None
\* of a failed extraction is appended like a record.
CaptureAppendingNone ==
    /\ producer_pc = "capture"
    /\ packets_read < MaxPackets
    /\ \E packet \in StreamPackets :
          LET packet_data == extract_packet_data(packet, clock + 1) IN
          /\ packet_data = None => failures < MaxFailures
          /\ clock' = IF ReadsClock(packet) THEN clock + 1 ELSE clock
          /\ packet_buffer' = Append(packet_buffer, packet_data)
          /\ failures' = IF packet_data = None THEN failures + 1 ELSE failures
    /\ packets_read' = packets_read + 1
    /\ producer_pc' = "sleep"
    /\ UNCHANGED <<fn_input, fn_output, style, poetry_archive, consumer_pc,
                   in_flight, drains, artifact, save_calls, exit_cause>>

\* Variant of Capture: the record is inserted at the head of the buffer.
CapturePrepending ==
    /\ producer_pc = "capture"
    /\ packets_read < MaxPackets
    /\ \E packet \in StreamPackets :
          LET packet_data == extract_packet_data(packet, clock + 1) IN
          /\ packet_data = None => failures < MaxFailures
          /\ clock' = IF ReadsClock(packet) THEN clock + 1 ELSE clock
          /\ packet_buffer' = IF packet_data # None
                              THEN <<packet_data>> \o packet_buffer
                              ELSE packet_buffer
          /\ failures' = IF packet_data = None THEN failures + 1 ELSE failures
    /\ packets_read' = packets_read + 1
    /\ producer_pc' = "sleep"
    /\ UNCHANGED <<fn_input, fn_output, style, poetry_archive, consumer_pc,
                   in_flight, drains, artifact, save_calls, exit_cause>>

\* One iteration of the capture loop up to its await, main.py:193-197: the
\* stream yields a packet, it is extracted, and appended unless extraction
\* returned None.
Capture ==
    /\ producer_pc = "capture"
    /\ packets_read < MaxPackets
    /\ \E packet \in StreamPackets :
          LET packet_data == extract_packet_data(packet, clock + 1) IN
          /\ packet_data = None => failures < MaxFailures
          /\ clock' = IF ReadsClock(packet) THEN clock + 1 ELSE clock
          /\ packet_buffer' = IF packet_data # None
                              THEN Append(packet_buffer, packet_data)
                              ELSE packet_buffer
          /\ failures' = IF packet_data = None THEN failures + 1 ELSE failures
    /\ packets_read' = packets_read + 1
    /\ producer_pc' = "sleep"
    /\ UNCHANGED <<fn_input, fn_output, style, poetry_archive, consumer_pc, in_flight, drains,
                   artifact, save_calls, exit_cause>>

\* Variant of ProducerWake: the generation call runs on the event loop
\* itself, so the producer's sleep cannot return while a call is running.
ProducerWakeBlockedByCall ==
    /\ producer_pc = "sleep"
    /\ consumer_pc # "generate"
    /\ producer_pc' = "capture"
    /\ UNCHANGED <<fn_input, fn_output, style, packet_buffer, poetry_archive, consumer_pc,
                   packets_read, failures, clock, in_flight, drains,
                   artifact, save_calls, exit_cause>>

\* asyncio.sleep(0.1) returns, main.py:197.
ProducerWake ==
    /\ producer_pc = "sleep"
    /\ producer_pc' = "capture"
    /\ UNCHANGED <<fn_input, fn_output, style, packet_buffer, poetry_archive, consumer_pc,
                   packets_read, failures, clock, in_flight, drains,
                   artifact, save_calls, exit_cause>>

\* Variant of StreamEnd: save_archive is called in the except block only,
\* so a stream that ends leaves without saving.
StreamEndWithoutSave ==
    /\ producer_pc = "capture"
    /\ producer_pc' = "exited"
    /\ consumer_pc' = "cancelled"
    /\ exit_cause' = "stream_end"
    /\ UNCHANGED <<fn_input, fn_output, style, packet_buffer, poetry_archive, packets_read,
                   failures, clock, in_flight, drains, artifact, save_calls>>

\* The packet stream ends: the for loop of main.py:193 is left normally.
StreamEnd ==
    /\ producer_pc = "capture"
    /\ \E outcome \in SaveOutcomes : Finish("stream_end", outcome)

\* The packet source raises inside the capture loop (main.py:193): the
\* exception is no KeyboardInterrupt and leaves through the finally block.
CaptureError ==
    /\ producer_pc = "capture"
    /\ \E outcome \in SaveOutcomes : Finish("error", outcome)

\* The external stop signal, main.py:198-203: the consumer task is
\* cancelled and the archive saved.
StopSignal ==
    /\ producer_pc \in {"capture", "sleep"}
    /\ \E outcome \in SaveOutcomes : Finish("stop", outcome)

(* ------------------------------- consumer ----------------------------- *)

\* One poll that starts a drain when `due` holds, main.py:164-168 and 186.
PollStep(due) ==
    /\ LoopRuns
    /\ consumer_pc = "poll"
    /\ IF due
       THEN /\ in_flight' = Append(in_flight,
                   [prompt |-> craft_prompt(packet_buffer, style),
                    batch  |-> packet_buffer])
            /\ consumer_pc' = "generate"
       ELSE /\ in_flight' = in_flight
            /\ consumer_pc' = "sleep"
    /\ UNCHANGED <<fn_input, fn_output, style, packet_buffer, poetry_archive, producer_pc,
                   packets_read, failures, clock, drains, artifact,
                   save_calls, exit_cause>>

\* Variant of ConsumerPoll: the generation call is dispatched without being
\* awaited, so the consumer polls again while a call is running.
ConsumerPollWithoutAwait ==
    /\ LoopRuns
    /\ consumer_pc \in {"poll", "generate"}
    /\ IF Len(packet_buffer) >= Threshold
       THEN /\ in_flight' = Append(in_flight,
                   [prompt |-> craft_prompt(packet_buffer, style),
                    batch  |-> packet_buffer])
            /\ consumer_pc' = "generate"
       ELSE /\ in_flight' = in_flight
            /\ consumer_pc' = IF consumer_pc = "poll" THEN "sleep" ELSE consumer_pc
    /\ UNCHANGED <<fn_input, fn_output, style, packet_buffer, poetry_archive, producer_pc,
                   packets_read, failures, clock, drains, artifact,
                   save_calls, exit_cause>>

\* Variant of ConsumerPoll: the test is `if self.packet_buffer:`.
ConsumerPollNonEmpty == PollStep(Len(packet_buffer) > 0)

\* Variant of ConsumerPoll: the threshold is off by one.
ConsumerPollOffByOne == PollStep(Len(packet_buffer) >= Threshold - 1)

\* One poll of buffer_processor, main.py:164-168 and 186: with a full
\* buffer the prompt is built and the generation call started, otherwise
\* the task goes to sleep.
ConsumerPoll == PollStep(Len(packet_buffer) >= Threshold)

\* The consumer's step from the return of generate_poetry to its next
\* await, main.py:168-186: the entry is built with the field maps of
\* `packets`, stored under its timestamp, and the buffer becomes `rest`.
ArchiveStep(packets, rest) ==
    /\ LoopRuns
    /\ consumer_pc = "generate"
    /\ \E outcome \in ServiceOutcomes, now \in Times :
          LET poetry == generate_poetry(outcome)
              archive_entry == PoetryArchiveEntry(poetry, FieldMaps(packets),
                                                  style, now)
          IN  /\ poetry_archive' = (now :> archive_entry) @@ poetry_archive
              /\ drains' = Append(drains,
                       [entry   |-> archive_entry,
                        call    |-> Head(in_flight),
                        outcome |-> outcome,
                        removed |-> packet_buffer])
    /\ packet_buffer' = rest
    /\ in_flight' = Tail(in_flight)
    /\ consumer_pc' = "sleep"
    /\ UNCHANGED <<fn_input, fn_output, style, producer_pc, packets_read, failures, clock,
                   artifact, save_calls, exit_cause>>

\* Variant of ConsumerArchive: an entry is stored only under a timestamp
\* the archive does not hold yet (setdefault instead of assignment).
ConsumerArchiveKeepingFirst ==
    /\ LoopRuns
    /\ consumer_pc = "generate"
    /\ \E outcome \in ServiceOutcomes, now \in Times :
          LET poetry == generate_poetry(outcome)
              archive_entry == PoetryArchiveEntry(poetry, FieldMaps(packet_buffer),
                                                  style, now)
          IN  /\ poetry_archive' = poetry_archive @@ (now :> archive_entry)
              /\ drains' = Append(drains,
                       [entry   |-> archive_entry,
                        call    |-> Head(in_flight),
                        outcome |-> outcome,
                        removed |-> packet_buffer])
    /\ packet_buffer' = <<>>
    /\ in_flight' = Tail(in_flight)
    /\ consumer_pc' = "sleep"
    /\ UNCHANGED <<fn_input, fn_output, style, producer_pc, packets_read,
                   failures, clock, artifact, save_calls, exit_cause>>

\* Variant of ConsumerArchive: the entry holds the batch the prompt was
\* built from, and clear() still empties the whole buffer.
ConsumerArchiveOfPromptBatch == ArchiveStep(Head(in_flight).batch, <<>>)

\* Variant of ConsumerArchive: packet_buffer.clear() is left out.
ConsumerArchiveWithoutClear == ArchiveStep(packet_buffer, packet_buffer)

\* The generation call returns and the consumer runs to its next await,
\* main.py:168-186: the entry is built from the buffer as it is now
\* (main.py:172), stored under its timestamp, and the buffer cleared
\* (main.py:180).
ConsumerArchive == ArchiveStep(packet_buffer, <<>>)

\* asyncio.sleep(1) returns, main.py:186.
ConsumerWake ==
    /\ LoopRuns
    /\ consumer_pc = "sleep"
    /\ consumer_pc' = "poll"
    /\ UNCHANGED <<fn_input, fn_output, style, packet_buffer, poetry_archive, producer_pc,
                   packets_read, failures, clock, in_flight, drains,
                   artifact, save_calls, exit_cause>>

(* ---------------------------- specification --------------------------- *)

Next ==
    \/ Capture
    \/ ProducerWake
    \/ StreamEnd
    \/ CaptureError
    \/ StopSignal
    \/ ConsumerPoll
    \/ ConsumerArchive
    \/ ConsumerWake

Spec == Init /\ [][Next]_vars

(* ------------------- the pipeline that is never stopped --------------- *)

\* The steps of a run in which no stop signal arrives, the packet source
\* neither ends nor raises: the capture loop (main.py:193-197) and the
\* consumer loop (main.py:164-186) go on for ever.
NextLive ==
    \/ Capture
    \/ ProducerWake
    \/ ConsumerPoll
    \/ ConsumerArchive
    \/ ConsumerWake

\* What the event loop and the service guarantee.  A sleep that is over
\* returns (main.py:197, main.py:186); the consumer, whenever the loop runs
\* again and again, gets its poll (main.py:166) and the return of its
\* generation call (main.py:168), which always comes.  Nothing makes a
\* packet arrive: sniff_continuously() (main.py:193) yields when the
\* network has one.
LoopFairness ==
    /\ WF_vars(ProducerWake)
    /\ SF_vars(ConsumerWake)
    /\ SF_vars(ConsumerPoll)
    /\ SF_vars(ConsumerArchive)

SpecLive == Init /\ [][NextLive]_vars /\ LoopFairness

(* ------------------------ the extractor on its own -------------------- *)

\* The pipeline before its first step, with the function variables left to
\* the specification that uses them.
PipelineAtRest ==
    /\ style = "pessoa"
    /\ packet_buffer = <<>>
    /\ poetry_archive = <<>>
    /\ producer_pc = "capture"
    /\ consumer_pc = "poll"
    /\ packets_read = 0
    /\ failures = 0
    /\ clock = 0
    /\ in_flight = <<>>
    /\ drains = <<>>
    /\ artifact = NoFile
    /\ save_calls = <<>>
    /\ exit_cause = "running"

\* A packet object is about to be handed to extract_packet_data.
InitExtract ==
    /\ PipelineAtRest
    /\ fn_input \in [packet : Packets, now : {1}]
    /\ fn_output = Idle

\* The call self.extract_packet_data(packet), main.py:194.
Extract ==
    /\ fn_output = Idle
    /\ fn_output' = extract_packet_data(fn_input.packet, fn_input.now)
    /\ UNCHANGED <<pipeline_vars, fn_input>>

SpecExtract == InitExtract /\ [][Extract]_vars

(* --------------------- the prompt builder on its own ------------------ *)

\* A packet without a transport layer: its record has no ports.
PortlessPacket ==
    [GoodPacket EXCEPT !.has_transport = FALSE, !.transport_layer = Missing,
                       !.layers = <<>>]

\* A TCP packet without an ip layer: its record has the sentinel addresses.
AddresslessPacket ==
    [GoodPacket EXCEPT !.has_ip = FALSE, !.ip_src = Missing, !.ip_dst = Missing]

\* The records batches are made of: what the extractor returns for a
\* well-formed packet, a packet without ports and a packet without addresses.
PromptRecords ==
    {extract_packet_data(packet, 1) :
        packet \in {GoodPacket, PortlessPacket, AddresslessPacket}}

\* The batches of at most MaxBatch records.
Batches == UNION {[1..n -> PromptRecords] : n \in 0..MaxBatch}

\* A batch and a style are about to be handed to craft_prompt.
InitPrompt ==
    /\ PipelineAtRest
    /\ fn_input \in [packets : Batches, style : PoetryStyle]
    /\ fn_output = Idle

\* The prompts returned so far.
Returned == IF fn_output = Idle THEN <<>> ELSE fn_output.returned

\* The call self.craft_prompt(packets, style), main.py:167, made once more
\* on the same arguments.
Build ==
    /\ Len(Returned) < MaxCalls
    /\ fn_output' = [returned |-> Append(Returned,
                                         craft_prompt(fn_input.packets, fn_input.style))]
    /\ UNCHANGED <<pipeline_vars, fn_input>>

SpecPrompt == InitPrompt /\ [][Build]_vars

(* ------------------------------ properties ---------------------------- *)

\* The elements of a sequence.
Elems(seq) == {seq[i] : i \in DOMAIN seq}

\* The drain completed last.
LastDrain(history) == history[Len(history)]

\* C1: no record is lost.  In every step, a record that leaves the buffer
\* is in the packet list of the archive entry that this very step records
\* (a drain is the only way out of the buffer).
C1_NoRecordLost ==
    [][\A r \in Elems(packet_buffer) \ Elems(packet_buffer') :
          /\ Len(drains') = Len(drains) + 1
          /\ r \in Elems(LastDrain(drains').entry.packets)
          /\ LastDrain(drains').entry.generated_at \in DOMAIN poetry_archive'
          /\ poetry_archive'[LastDrain(drains').entry.generated_at]
                = LastDrain(drains').entry]_vars

\* C1 witness: a drain completed whose entry holds a record appended while
\* its generation call was in flight.
C1_Witness ==
    \E i \in DOMAIN drains :
        /\ Len(drains[i].entry.packets) > Len(drains[i].call.batch)
        /\ Elems(drains[i].removed) \subseteq Elems(drains[i].entry.packets)

\* C2: no record appears in the packet lists of two different drains.
C2_NoDuplicate ==
    \A i, j \in DOMAIN drains :
        i # j => Elems(drains[i].entry.packets)
                   \cap Elems(drains[j].entry.packets) = {}

\* C2 witness: two drains have completed, each with records.
C2_Witness ==
    /\ Len(drains) = 2
    /\ drains[1].entry.packets # <<>>
    /\ drains[2].entry.packets # <<>>


\* C3: a batch is a frozen snapshot.  The packet list stored in an archive
\* entry is exactly the list of records its prompt was built from.
C3_FrozenSnapshot ==
    \A i \in DOMAIN drains :
        drains[i].entry.packets = FieldMaps(drains[i].call.batch)

\* C4 as stated: every drained batch has length exactly 5.
C4_BatchExactlyThreshold ==
    \A i \in DOMAIN drains : Len(drains[i].entry.packets) = Threshold

\* C4 as amended: a drain starts only once the buffer has reached the
\* threshold, so every drained batch, and the batch its prompt was built
\* from, has length at least 5.
C4_BatchAtLeastThreshold ==
    \A i \in DOMAIN drains :
        /\ Len(drains[i].call.batch) >= Threshold
        /\ Len(drains[i].entry.packets) >= Threshold

\* C4 witness: a drain whose poll already found more than 5 records, with
\* no record appended while its call was in flight.
C4_Witness ==
    \E i \in DOMAIN drains :
        /\ Len(drains[i].call.batch) > Threshold
        /\ Len(drains[i].entry.packets) = Len(drains[i].call.batch)

\* C5: a poll that finds fewer than 5 records changes nothing but the
\* consumer's position; a generation call starts only at a poll that finds
\* at least 5 records; and right after a drain's clear the buffer is empty.
C5_PollBelowThresholdIsNoOp ==
    [][/\ (consumer_pc = "poll" /\ consumer_pc' \in {"sleep", "generate"}
           /\ Len(packet_buffer) < Threshold)
          => /\ consumer_pc' = "sleep"
             /\ UNCHANGED <<packet_buffer, poetry_archive, in_flight, drains,
                            artifact>>
       /\ Len(in_flight') > Len(in_flight)
          => /\ consumer_pc = "poll"
             /\ Len(packet_buffer) >= Threshold
             /\ in_flight'[Len(in_flight')].batch = packet_buffer
       /\ Len(drains') > Len(drains) => packet_buffer' = <<>>]_vars

\* C5 witness: the consumer sleeps after a poll that found a non-empty
\* buffer below the threshold, and a drain has completed before.
C5_Witness ==
    /\ consumer_pc = "sleep"
    /\ packet_buffer # <<>>
    /\ Len(packet_buffer) < Threshold
    /\ in_flight = <<>>
    /\ Len(drains) = 1
    /\ LastDrain(drains).removed # <<>>
    /\ clock = Len(packet_buffer) + Len(LastDrain(drains).removed)


\* C6: every generation call that completes, successfully or not, records
\* exactly one archive entry for its batch and touches no other entry; a
\* failed call gives the fallback string; and no failure ends the consumer:
\* it goes to sleep and wakes for the next poll, and is only ever stopped by
\* the exit of the process.
C6_EveryCompletedCallIsArchived ==
    /\ [](consumer_pc = "cancelled" => producer_pc = "exited")
    /\ []((consumer_pc = "sleep" /\ LoopRuns) => ENABLED ConsumerWake)
    /\ [][(consumer_pc = "generate" /\ consumer_pc' # "generate"
            /\ producer_pc' # "exited")
          => LET d   == LastDrain(drains')
                 key == d.entry.generated_at
             IN  /\ Len(drains') = Len(drains) + 1
                 /\ d.call = Head(in_flight)
                 /\ in_flight' = Tail(in_flight)
                 /\ DOMAIN poetry_archive' = DOMAIN poetry_archive \cup {key}
                 /\ poetry_archive'[key] = d.entry
                 /\ \A k \in DOMAIN poetry_archive \ {key} :
                        poetry_archive'[k] = poetry_archive[k]
                 /\ d.outcome = Raised => d.entry.poetry = FallbackText
                 /\ d.entry.packets # <<>>
                 /\ consumer_pc' = "sleep"]_vars

\* C6 witness: a call failed, its batch is in the archive with the
\* fallback text, and the consumer is at its next poll.
C6_Witness ==
    /\ drains # <<>>
    /\ LastDrain(drains).outcome = Raised
    /\ LastDrain(drains).entry.poetry = FallbackText
    /\ poetry_archive[LastDrain(drains).entry.generated_at] = LastDrain(drains).entry
    /\ consumer_pc = "poll"

C8_ProducerNotBlocked ==
    consumer_pc = "generate" =>
        /\ producer_pc \in {"sleep", "capture"}
        /\ producer_pc = "sleep" => ENABLED ProducerWake
        /\ (producer_pc = "capture" /\ packets_read < MaxPackets) => ENABLED Capture

\* C8 witness: a call is in flight and the buffer holds a record appended
\* after the call started.
C8_Witness ==
    /\ consumer_pc = "generate"
    /\ in_flight # <<>>
    /\ Len(packet_buffer) = Len(Head(in_flight).batch) + 1
    /\ producer_pc = "sleep"

\* C9: however process_packets ends, the consumer task is cancelled and
\* save_archive has been called exactly once; before that it has not been
\* called at all.
C9_PersistExactlyOnce ==
    /\ producer_pc = "exited"
          => /\ Len(save_calls) = 1
             /\ consumer_pc = "cancelled"
             /\ exit_cause \in {"stop", "stream_end", "error"}
    /\ producer_pc # "exited"
          => /\ save_calls = <<>>
             /\ consumer_pc # "cancelled"
             /\ exit_cause = "running"

\* C9 witness: the stop signal arrived with a generation call in flight and
\* an earlier drain archived.
C9_Witness ==
    /\ exit_cause = "stop"
    /\ producer_pc = "exited"
    /\ in_flight # <<>>
    /\ drains # <<>>
    /\ Len(save_calls) = 1

\* C10: after a final persist that succeeded the file holds exactly the
\* archive in memory, entry for entry and field for field, and nothing of
\* what it held before.
C10_FinalPersistIsFullSnapshot ==
    (producer_pc = "exited" /\ save_calls = <<"written">>)
        => /\ DOMAIN artifact = {"file", "content"}
           /\ artifact.file = "json"
           /\ DOMAIN artifact.content = DOMAIN poetry_archive
           /\ \A k \in DOMAIN poetry_archive :
                 /\ artifact.content[k].poetry = poetry_archive[k].poetry
                 /\ artifact.content[k].style = poetry_archive[k].style
                 /\ artifact.content[k].generated_at = poetry_archive[k].generated_at
                 /\ Len(artifact.content[k].packets) = Len(poetry_archive[k].packets)
                 /\ \A i \in DOMAIN poetry_archive[k].packets :
                       artifact.content[k].packets[i].timestamp
                         = ToString(poetry_archive[k].packets[i].timestamp)
           /\ \A i \in DOMAIN drains :
                 drains[i].entry.generated_at \in DOMAIN artifact.content

\* C10 witness: the process has exited after a successful persist of an
\* archive with two entries.
C10_Witness ==
    /\ producer_pc = "exited"
    /\ save_calls = <<"written">>
    /\ Cardinality(DOMAIN poetry_archive) = 2
    /\ artifact = Written(poetry_archive)


\* C11: a persistence write that fails raises nothing and changes nothing
\* in memory.  The archive, the buffer and the drains are as before, and
\* process_packets ends the way it was ending anyway.
C11_FailedPersistIsContained ==
    [][(/\ Len(save_calls') = Len(save_calls) + 1
        /\ save_calls'[Len(save_calls')] \in {"open_failed", "dump_failed"})
          => /\ poetry_archive' = poetry_archive
             /\ packet_buffer' = packet_buffer
             /\ drains' = drains
             /\ producer_pc' = "exited"
             /\ exit_cause' \in {"stop", "stream_end", "error"}
             /\ artifact' \in {artifact, Truncated}]_vars

\* C11 witness: the stream ended, the write failed after truncating the
\* file, and the archive in memory still holds its entry.
C11_Witness ==
    /\ save_calls = <<"dump_failed">>
    /\ exit_cause = "stream_end"
    /\ artifact = Truncated
    /\ drains # <<>>
    /\ poetry_archive[LastDrain(drains).entry.generated_at] = LastDrain(drains).entry

\* The last drain whose entry has timestamp k.
LastDrainAt(k) ==
    LET at == {i \in DOMAIN drains : drains[i].entry.generated_at = k}
    IN  drains[CHOOSE i \in at : \A j \in at : j <= i]

\* C12: archive keys are unique and the last writer wins.  The archive
\* holds, under each timestamp some drain produced, the entry of the last
\* drain with that timestamp, and so never more entries than drains.
C12_LastWriterWins ==
    /\ DOMAIN poetry_archive = {drains[i].entry.generated_at : i \in DOMAIN drains}
    /\ \A k \in DOMAIN poetry_archive : poetry_archive[k] = LastDrainAt(k).entry
    /\ Cardinality(DOMAIN poetry_archive) <= Len(drains)

\* C12 witness: two drains with the same timestamp and different batches,
\* and one archive entry, holding the second batch.
C12_Witness ==
    /\ Len(drains) = 2
    /\ drains[1].entry.generated_at = drains[2].entry.generated_at
    /\ drains[1].entry.packets # drains[2].entry.packets
    /\ Cardinality(DOMAIN poetry_archive) = 1
    /\ poetry_archive[drains[2].entry.generated_at].packets = drains[2].entry.packets

\* C13: an extraction failure never halts the pipeline.  A packet whose
\* extraction fails leaves the buffer as it was, a packet is appended only
\* as the record of a successful extraction, and after either the producer
\* is at its sleep and then ready for the next packet.
C13_FailedExtractionIsSkipped ==
    /\ [](\A i \in DOMAIN packet_buffer : packet_buffer[i] # None)
    /\ []((producer_pc = "capture" /\ packets_read < MaxPackets) => ENABLED Capture)
    /\ [](producer_pc = "sleep" => ENABLED ProducerWake)
    /\ [][packets_read' = packets_read + 1
          => /\ producer_pc' = "sleep"
             /\ failures' \in {failures, failures + 1}
             /\ failures' = failures + 1 => packet_buffer' = packet_buffer
             /\ failures' = failures
                   => /\ Len(packet_buffer') = Len(packet_buffer) + 1
                      /\ SubSeq(packet_buffer', 1, Len(packet_buffer)) = packet_buffer
                      /\ packet_buffer'[Len(packet_buffer')] # None]_vars

\* C13 witness: the first packet failed extraction, the buffer is still
\* empty, and the producer is back in its loop, ready for the next packet.
C13_Witness ==
    /\ failures = 1
    /\ packets_read = 1
    /\ packet_buffer = <<>>
    /\ producer_pc = "capture"
    /\ ENABLED Capture

(* Liveness of the drain, checked under SpecLive. *)

\* The capture timestamps of the records of seq.
Timestamps(seq) == {seq[i].timestamp : i \in DOMAIN seq}

\* C17: liveness of the drain.  Whenever the buffer holds at least five
\* records and no stop signal occurs, every record it holds is eventually
\* in the packet list of a recorded archive entry and out of the buffer.
C17_FullBufferIsEventuallyDrained ==
    \A t \in 1..MaxPackets :
        (Len(packet_buffer) >= Threshold /\ t \in Timestamps(packet_buffer))
            ~> /\ t \notin Timestamps(packet_buffer)
               /\ \E k \in DOMAIN poetry_archive :
                     t \in Timestamps(poetry_archive[k].packets)

\* The timestamps written to the file, over all its entries.
PersistedTimestamps ==
    IF "content" \in DOMAIN artifact
    THEN UNION {{artifact.content[k].packets[i].timestamp :
                    i \in DOMAIN artifact.content[k].packets} :
                        k \in DOMAIN artifact.content}
    ELSE {}

\* C18: records still in the buffer when the process stops are never
\* archived.  Once process_packets has exited, whether below the threshold
\* or with a generation call for the buffer in flight, no archive entry and
\* no drain holds a record of the buffer, the file holds none of them, and
\* archive and buffer stay as they are.
C18_LeftoverRecordsAreNotArchived ==
    /\ [](producer_pc = "exited" =>
            \A i \in DOMAIN packet_buffer :
                /\ \A k \in DOMAIN poetry_archive :
                      packet_buffer[i] \notin Elems(poetry_archive[k].packets)
                /\ \A d \in DOMAIN drains :
                      packet_buffer[i] \notin Elems(drains[d].entry.packets)
                /\ ToString(packet_buffer[i].timestamp) \notin PersistedTimestamps)
    /\ [][producer_pc = "exited" =>
            /\ poetry_archive' = poetry_archive
            /\ packet_buffer' = packet_buffer
            /\ drains' = drains
            /\ artifact' = artifact]_vars

\* C18 witness: the stop signal arrived with a generation call for five
\* buffered records in flight; an earlier entry was written to the file.
C18_Witness ==
    /\ exit_cause = "stop"
    /\ in_flight # <<>>
    /\ Len(packet_buffer) >= Threshold
    /\ Head(in_flight).batch = packet_buffer
    /\ poetry_archive # <<>>
    /\ artifact = Written(poetry_archive)

\* C18 witness, below the threshold: the stop signal arrived with fewer
\* than five records buffered and no call in flight.
C18_WitnessBelowThreshold ==
    /\ exit_cause = "stop"
    /\ in_flight = <<>>
    /\ packet_buffer # <<>>
    /\ Len(packet_buffer) < Threshold
    /\ artifact = Written(poetry_archive)

\* seq is an initial segment of full.
IsPrefix(seq, full) ==
    /\ Len(seq) <= Len(full)
    /\ SubSeq(full, 1, Len(seq)) = seq

\* C19: the records a prompt was built from are a prefix of the packet
\* list of its entry; the list extends them by exactly the records
\* appended while the call was in flight, being the buffer as it is when
\* the call completes; and the buffer only ever changes by an append at
\* its tail or by being emptied.
C19_PromptBatchIsPrefixOfEntry ==
    /\ [](\A i \in DOMAIN drains :
            /\ IsPrefix(FieldMaps(drains[i].call.batch), drains[i].entry.packets)
            /\ \A j \in DOMAIN drains[i].entry.packets :
                  j > Len(drains[i].call.batch) =>
                      \A b \in DOMAIN drains[i].call.batch :
                          drains[i].call.batch[b].timestamp
                            < drains[i].entry.packets[j].timestamp)
    /\ [](in_flight # <<>> => IsPrefix(Head(in_flight).batch, packet_buffer))
    /\ [][Len(drains') = Len(drains) + 1 =>
            /\ LastDrain(drains').call = Head(in_flight)
            /\ LastDrain(drains').entry.packets = FieldMaps(packet_buffer)]_vars
    /\ [][\/ packet_buffer' = packet_buffer
          \/ packet_buffer' = <<>>
          \/ /\ Len(packet_buffer') = Len(packet_buffer) + 1
             /\ SubSeq(packet_buffer', 1, Len(packet_buffer)) = packet_buffer]_vars

\* C19 witness: an entry whose packet list is longer than the batch its
\* prompt was built from, the buffer having been emptied by its drain.
C19_Witness ==
    /\ drains # <<>>
    /\ Len(LastDrain(drains).entry.packets) > Len(LastDrain(drains).call.batch)
    /\ IsPrefix(FieldMaps(LastDrain(drains).call.batch), LastDrain(drains).entry.packets)
    /\ packet_buffer = <<>>

\* The records of seq are in the order of their capture.
InCaptureOrder(seq) ==
    \A a, b \in DOMAIN seq : a < b => seq[a].timestamp < seq[b].timestamp

\* C20: append order is preserved end to end.  Within the buffer, every
\* drain's entry and every archive entry the records are in the order of
\* their capture, and every record of an earlier drain was captured before
\* every record of a later drain.
C20_AppendOrderPreserved ==
    /\ InCaptureOrder(packet_buffer)
    /\ \A i \in DOMAIN drains : InCaptureOrder(drains[i].entry.packets)
    /\ \A k \in DOMAIN poetry_archive : InCaptureOrder(poetry_archive[k].packets)
    /\ \A i, j \in DOMAIN drains :
          i < j => \A a \in DOMAIN drains[i].entry.packets,
                      b \in DOMAIN drains[j].entry.packets :
                        drains[i].entry.packets[a].timestamp
                          < drains[j].entry.packets[b].timestamp

\* C20 witness: two drains of five records each, both entries in the
\* archive.
C20_Witness ==
    /\ Len(drains) = 2
    /\ Cardinality(DOMAIN poetry_archive) = 2
    /\ Len(drains[1].entry.packets) = Threshold
    /\ Len(drains[2].entry.packets) = Threshold
    /\ drains[1].entry.packets[1].timestamp < drains[2].entry.packets[1].timestamp

(* Properties of the prompt builder, checked under SpecPrompt. *)

\* The piece of a description line that stands for a port.
PortText(port) == IF port = None THEN "None" ELSE ToString(port.int)

\* C16: the prompt builder is a pure function of batch and style.  Every
\* prompt returned for a batch of n records has the preamble of the style,
\* exactly n packet lines, line i describing record i (absent ports are
\* rendered as None), and the closing instruction naming the style; all
\* prompts returned for the same input are equal, and the call changes
\* nothing else.
C16_PromptIsPreambleLinesClosing ==
    /\ [](\A c \in DOMAIN Returned :
            LET prompt == Returned[c]
                batch  == fn_input.packets
            IN  /\ prompt.preamble = base_context(fn_input.style)
                /\ \A other \in PoetryStyle \ {fn_input.style} :
                      prompt.preamble # base_context(other)
                /\ Len(prompt.lines) = Len(batch)
                /\ \A i \in DOMAIN batch :
                      /\ prompt.lines[i][2] = batch[i].src_ip
                      /\ prompt.lines[i][4] = PortText(batch[i].port_src)
                      /\ prompt.lines[i][6] = batch[i].dest_ip
                      /\ prompt.lines[i][8] = PortText(batch[i].port_dst)
                      /\ prompt.lines[i][10] = ToString(batch[i].length)
                      /\ prompt.lines[i][12] = batch[i].protocol
                /\ prompt.closing[2] = fn_input.style
                /\ prompt = Returned[1])
    /\ [][fn_input' = fn_input /\ pipeline_vars' = pipeline_vars]_vars

\* C16 witness: the builder was called twice on a full batch whose first
\* record has no ports and whose last record has them.
C16_Witness ==
    /\ Len(Returned) = MaxCalls
    /\ Len(fn_input.packets) = MaxBatch
    /\ fn_input.packets[1].port_src = None
    /\ fn_input.packets[MaxBatch].port_src # None
    /\ Len(Returned[MaxCalls].lines) = MaxBatch

(* Properties of the extractor, checked under SpecExtract. *)

\* The extractor has returned a record.
ReturnedRecord == fn_output # Idle /\ fn_output # None /\ fn_output # Raised

\* C14 as stated: for every packet without network-layer fields the record
\* has the sentinel as both addresses and no ports.
C14_NoIpMeansNoPorts ==
    (ReturnedRecord /\ ~ fn_input.packet.has_ip)
        => /\ fn_output.src_ip = "Unknown"
           /\ fn_output.dest_ip = "Unknown"
           /\ fn_output.port_src = None
           /\ fn_output.port_dst = None

\* C14 as amended: for every packet without network-layer fields the
\* record has the sentinel as both addresses; its ports are absent when the
\* packet has no transport layer either, and are the numbers of the
\* transport layer's port fields when it has one.
C14_NoIpMeansUnknownAddresses ==
    (ReturnedRecord /\ ~ fn_input.packet.has_ip)
        => /\ fn_output.src_ip = "Unknown"
           /\ fn_output.dest_ip = "Unknown"
           /\ ~ fn_input.packet.has_transport
                 => /\ fn_output.port_src = None
                    /\ fn_output.port_dst = None
                    /\ fn_output.protocol = "Unknown"
           /\ fn_input.packet.has_transport
                 => LET layer == fn_input.packet.layers[fn_input.packet.transport_layer]
                    IN  /\ fn_output.port_src = [int |-> NumericText[layer.srcport]]
                        /\ fn_output.port_dst = [int |-> NumericText[layer.dstport]]

\* C14 witness: a record for a packet that has no ip layer but a transport
\* layer, with both ports present.
C14_Witness ==
    /\ ReturnedRecord
    /\ ~ fn_input.packet.has_ip
    /\ fn_input.packet.has_transport
    /\ fn_output.src_ip = "Unknown"
    /\ fn_output.port_src # None
    /\ fn_output.port_dst # None

\* C15: the extractor is total.  It returns a record or None and lets no
\* exception out; it returns None when the length is missing or not
\* numeric, and when the protocol is resolved but a port field is missing
\* or not an integer.
C15_ExtractorIsTotal ==
    fn_output # Idle =>
        LET packet == fn_input.packet IN
        /\ fn_output # Raised
        /\ fn_output # None
              => DOMAIN fn_output = {"src_ip", "dest_ip", "protocol", "length",
                                     "timestamp", "port_src", "port_dst", "flags"}
        /\ packet.length \notin {"60"} => fn_output = None
        /\ (/\ packet.has_transport
            /\ packet.transport_layer \in DOMAIN packet.layers
            /\ \/ packet.layers[packet.transport_layer].srcport \notin {"443"}
               \/ packet.layers[packet.transport_layer].dstport \notin {"5000"})
              => fn_output = None

\* C15 witness: None for a packet with a numeric length whose resolved
\* transport layer lacks the source port.
C15_Witness ==
    /\ fn_output = None
    /\ fn_input.packet.length = "60"
    /\ fn_input.packet.has_transport
    /\ fn_input.packet.transport_layer \in DOMAIN fn_input.packet.layers
    /\ fn_input.packet.layers[fn_input.packet.transport_layer].srcport = Missing

====
